---- MODULE Spec2Model ----
(***************************************************************************)
(* State machine of src/src/app/page.tsx: the content store with its       *)
(* undo/redo history (Home), the mock authentication gate (AdminPanel)     *)
(* and the page load from localStorage, the gallery filter and the contact *)
(* form (ContactForm) with its endpoint (api/contact/route.ts).           *)
(*                                                                         *)
(* JavaScript objects are modelled as references into a heap, so that a    *)
(* snapshot held by reference and a snapshot held by copy differ.  React   *)
(* state is the committed value; `rendered` is the value of `content`      *)
(* captured by the closures of the last render (handleUndo and handleRedo  *)
(* read it).  AdminPanel's free names (adminLocked, setAdminState) are     *)
(* resolved to Home's values of the same name.                             *)
(***************************************************************************)
EXTENDS Integers, Sequences, FiniteSets, TLC

\* ---- program constants (page.tsx:56-58) ----
HISTORY_LIMIT == 20
ADMIN_LOCK_THRESHOLD == 3
ADMIN_LOCK_MS == 5 * 60 * 1000

\* ---- bounds of the model ----
MaxFeatures == 21    \* feature cards a content value may hold (SpecDeep)
MaxGallery == 1      \* gallery cards a content value may hold
MaxBatch == 2        \* handler calls dispatched before React re-renders (Spec)
BatchFeatures == 1   \* feature cards a content value may hold (Spec)
MaxStack == 3        \* entries of history and future together at an edit (Spec)
MaxSpan == 2         \* lockout periods the clock runs for (SpecAuth)
MaxItems == 3        \* items of the gallery (SpecGallery)

VARIABLES
    heap,        \* JS heap: reference -> ContentState value
    content,     \* useState content (a reference), page.tsx:652
    rendered,    \* `content` as captured by the closures of the last render
    pending,     \* handler calls dispatched since the last render
    history,     \* adminState.history (references, newest first)
    future,      \* adminState.future (references, newest first)
    op,          \* the handler that ran last, "undo;edit" for an edit made
                 \* after an undo, "undo;edit;redo" for a redo made after that,
                 \* "lock;load" for a load of a page that had a lockout set
    editLog,     \* values of content before each edit of the current run of edits
    undone,      \* undos made since the last edit of that run
    lockUntil,   \* adminState.lockUntil
    failedCount, \* adminState.failedCount
    role,        \* adminState.role ("null" for null)
    authenticated, \* adminState.authenticated
    preview,     \* adminState.preview, one of the persisted preferences
    now,         \* useState now (page.tsx:831)
    clock,       \* Date.now()
    step,        \* AdminPanel step
    authOpen,    \* AdminPanel authOpen
    authError,   \* AdminPanel authError
    loginForm,   \* AdminPanel loginForm
    streak,      \* login attempts with non-matching credentials in a row
    contentStore, \* localStorage item STORAGE_KEY
    adminStore,  \* localStorage item ADMIN_KEY
    saveFailed,  \* the last setItem of the persistence effects threw
    before,      \* content, history and future (values) before the last undo
    formState,   \* ContactForm state (page.tsx:517)
    status,      \* ContactForm status (page.tsx:518)
    inflight,    \* bodies of the fetches to /api/contact not yet answered
    galleryItems, \* content.gallery.items (page.tsx:779)
    filter,      \* useState filter (page.tsx:705)
    galleryView, \* the memoized filteredGallery of the last render (page.tsx:781)
    open,        \* AdminPanel open: the add form is shown (page.tsx:262)
    cardDraft    \* AdminPanel draft: the card being typed (page.tsx:268)

histVars == <<heap, content, rendered, pending, history, future, editLog, undone,
              before>>
authVars == <<lockUntil, failedCount, role, authenticated, preview, now, clock,
              step, authOpen, authError, loginForm, streak>>
storeVars == <<contentStore, adminStore, saveFailed>>
pageVars == <<formState, status, inflight, galleryItems, filter, galleryView>>
panelVars == <<open, cardDraft>>
vars == <<histVars, op, authVars, storeVars, pageVars, panelVars>>

\* ---- ContentState values ----
\* The sections of ContentState (page.tsx:23-32).
ContentKeys == {"hero", "features", "services", "gallery", "contact", "footer",
                "navigation", "meta"}

\* siteData, the bundled default document (page.tsx:14); the feature list
\* and the gallery are abstracted to the number of cards added to them, the
\* other sections, which no handler edits, to the number 1.
siteData ==
    [k \in ContentKeys |-> IF k \in {"features", "gallery"} THEN 0 ELSE 1]

\* The reference of the module-level siteData object.
SiteRef == 0

\* The mutations passed to updateContent: a card is prepended to the feature
\* list or to the gallery list of the draft (page.tsx:855-856).
Mutations == {"addFeature", "addGallery"}

mutatePartial(draft, m) ==
    [k \in DOMAIN draft \ {"hero"} |->
        IF (k = "features" /\ m = "addFeature") \/ (k = "gallery" /\ m # "addFeature")
        THEN draft[k] + 1 ELSE draft[k]]

mutate(draft, m) ==
    IF m = "addFeature"
    THEN [draft EXCEPT !.features = @ + 1]
    ELSE [draft EXCEPT !.gallery = @ + 1]

\* ---- arrays ----
\* Array.prototype.slice(0, n)
slice(s, n) == IF Len(s) <= n THEN s ELSE SubSeq(s, 1, n)

Range(s) == {s[i] : i \in 1..Len(s)}

\* The values the references of an array point to.
Vals(hp, s) == [i \in 1..Len(s) |-> hp[s[i]]]

\* ---- heap ----
\* The program's roots, in a fixed order: siteData, content, the closure's
\* content, the history entries and the future entries.
Roots(c, r, h, f) == <<SiteRef, c, r>> \o h \o f

\* References are names only: after each step the live objects are renamed
\* by the place of their first occurrence among the roots, and everything
\* unreachable is garbage and leaves the heap.
Rank(roots, x) ==
    LET first == CHOOSE i \in 1..Len(roots) :
                     roots[i] = x /\ \A j \in 1..(i - 1) : roots[j] # x
    IN  Cardinality({roots[j] : j \in 1..(first - 1)})

Rename(roots, s) == [i \in 1..Len(s) |-> Rank(roots, s[i])]

Collect(hp, c, r, h, f) ==
    LET roots == Roots(c, r, h, f)
    IN  [n \in {Rank(roots, roots[i]) : i \in 1..Len(roots)} |->
            hp[CHOOSE x \in Range(roots) : Rank(roots, x) = n]]

structuredCloneAlias(hp, current) == [ref |-> current, heap |-> hp]

\* structuredClone(current): a fresh object holding a copy of the value
\* (page.tsx:804); the result is the heap with the clone and its reference.
structuredClone(hp, current) ==
    LET fresh == Cardinality(DOMAIN hp)
    IN  [ref |-> fresh,
         heap |-> [i \in DOMAIN hp \cup {fresh} |->
                      IF i = fresh THEN hp[current] ELSE hp[i]]]

\* ---- history manager ----
pushHistoryNoLimit(snapshot, h) == <<snapshot>> \o h

pushHistoryEvictNewest(snapshot, h) ==
    IF Len(h) < HISTORY_LIMIT THEN <<snapshot>> \o h ELSE <<snapshot>> \o Tail(h)

\* pushHistory (page.tsx:794-800): the new history.
pushHistory(snapshot, h) == slice(<<snapshot>> \o h, HISTORY_LIMIT)

\* The `content` handleUndo and handleRedo read: the closure's (page.tsx:815, 825).
ClosureContent == rendered

\* The state after a step: the live objects, renamed.
Commit(hp, c, r, h, f) ==
    LET roots == Roots(c, r, h, f)
    IN  /\ heap' = Collect(hp, c, r, h, f)
        /\ content' = Rank(roots, c)
        /\ rendered' = Rank(roots, r)
        /\ history' = Rename(roots, h)
        /\ future' = Rename(roots, f)

\* ---- localStorage and JSON ----
\* getItem of a key never set.
NoItem == [kind |-> "null", value |-> "null"]

\* A stored text that is not JSON.
Malformed == [kind |-> "text", value |-> "{oops"]

\* JSON.stringify of plain data: the text of the value.
JSONstringify(v) == [kind |-> "json", value |-> v]

\* JSON.parse: the value of a JSON text, a SyntaxError otherwise.
JSONparse(raw) ==
    IF raw.kind = "json" THEN [ok |-> TRUE, value |-> raw.value]
                         ELSE [ok |-> FALSE, value |-> "SyntaxError"]

\* ---- gallery ----
\* The literal of page.tsx:783, the Russian word for "all", transliterated.
All == "Vse"

\* content.gallery.categories: the filter buttons (page.tsx:1134-1137).
Categories == <<All, "UI", "3D">>

\* Array.prototype.filter with the test of page.tsx:785.
RECURSIVE arrayFilter(_, _)
arrayFilter(items, f) ==
    IF items = <<>> THEN <<>>
    ELSE (IF Head(items).category = f THEN <<Head(items)>> ELSE <<>>)
         \o arrayFilter(Tail(items), f)

filteredGalleryFirst(items, f) ==
    IF f = All \/ items = <<>> THEN items
    ELSE IF \E i \in 1..Len(items) : items[i].category = f
         THEN <<items[CHOOSE i \in 1..Len(items) : items[i].category = f]>>
         ELSE <<>>

\* filteredGallery (page.tsx:781-787).
filteredGallery(items, f) ==
    IF f = All THEN items ELSE arrayFilter(items, f)

\* The gallery items of the bundled document.
SiteItems == << [id |-> 1, category |-> "UI"], [id |-> 2, category |-> "3D"] >>

\* onClick of a filter button (page.tsx:1137) and the render that follows,
\* which recomputes the memoized filteredGallery.
setFilter(category) ==
    /\ filter' = category
    /\ galleryView' = filteredGallery(galleryItems, category)
    /\ op' = "filter"
    /\ UNCHANGED <<histVars, authVars, storeVars, panelVars, formState, status, inflight,
                   galleryItems>>

\* The categories an item may carry, and the galleries the bundled document
\* may hold: up to MaxItems items, numbered in their order.
ItemCategories == {"UI", "ui", "3D"}

ItemLists ==
    UNION {{[i \in 1..n |-> [id |-> i, category |-> cs[i]]] :
               cs \in [1..n -> ItemCategories]} : n \in 0..MaxItems}

\* ---- contact form ----
\* The initial and the cleared ContactForm state (page.tsx:517, 534).
EmptyForm == [name |-> "", email |-> "", message |-> ""]

\* ---- add form ----
\* The initial and the cleared AdminPanel draft (page.tsx:268-273, 352); the
\* category of a gallery card is left out.
EmptyDraft == [title |-> "", text |-> "", type |-> "feature"]

\* ---- page load ----
\* Date.now() when the page is first loaded.
LoadTime == ADMIN_LOCK_MS \div 2

InitialContentDefault(raw) == [fromStore |-> FALSE, value |-> siteData]

\* The content initializer (page.tsx:652-664): the parsed item or siteData.
InitialContent(raw) ==
    IF raw.kind # "null" /\ JSONparse(raw).ok
    THEN [fromStore |-> TRUE, value |-> JSONparse(raw).value]
    ELSE [fromStore |-> FALSE, value |-> siteData]

\* defaultState (page.tsx:666-691), the fields the model keeps.
defaultState ==
    [preview |-> "desktop", lockUntil |-> 0, failedCount |-> 0,
     history |-> <<>>, future |-> <<>>, role |-> "null", authenticated |-> FALSE]

\* { ...a, ...b }
Spread(a, b) ==
    [k \in DOMAIN a \cup DOMAIN b |-> IF k \in DOMAIN b THEN b[k] ELSE a[k]]

\* The adminState initializer (page.tsx:665-704).
InitialAdmin(raw) ==
    IF raw.kind # "null" /\ JSONparse(raw).ok
    THEN Spread(Spread(defaultState, JSONparse(raw).value),
                [history |-> <<>>, future |-> <<>>])
    ELSE defaultState

toStoreWithLock(p) ==
    [preview |-> p, lockUntil |-> lockUntil, failedCount |-> failedCount]

\* toStore of the admin persistence effect (page.tsx:723-730).
toStore(p) == [preview |-> p]

\* The heap after a load: siteData, and the parsed content when there is one.
InitialHeap(c) ==
    IF c.fromStore THEN [i \in {SiteRef, SiteRef + 1} |->
                            IF i = SiteRef THEN siteData ELSE c.value]
                   ELSE [i \in {SiteRef} |-> siteData]

InitialRef(c) == IF c.fromStore THEN SiteRef + 1 ELSE SiteRef

\* The first visit: Home is constructed over an empty localStorage at
\* LoadTime, and the effects of the first commit store the content and the
\* preferences; items is the gallery of the bundled document.
InitWith(items) ==
    LET c == InitialContent(NoItem)
        a == InitialAdmin(NoItem)
    IN  /\ heap = InitialHeap(c)
        /\ content = InitialRef(c)
        /\ rendered = InitialRef(c)
        /\ pending = 0
        /\ history = a.history
        /\ future = a.future
        /\ op = "load"
        /\ editLog = <<>>
        /\ undone = 0
        /\ lockUntil = a.lockUntil
        /\ failedCount = a.failedCount
        /\ role = a.role
        /\ authenticated = a.authenticated
        /\ preview = a.preview
        /\ clock = LoadTime
        /\ now = LoadTime
        /\ step = "login"
        /\ authOpen = TRUE
        /\ authError = "null"
        /\ loginForm = [email |-> "", password |-> "", code |-> ""]
        /\ streak = 0
        /\ contentStore = JSONstringify(c.value)
        /\ adminStore = JSONstringify(toStore(a.preview))
        /\ saveFailed = FALSE
        /\ before = <<>>
        /\ formState = EmptyForm
        /\ status = "idle"
        /\ inflight = <<>>
        /\ open = FALSE
        /\ cardDraft = EmptyDraft
        /\ galleryItems = items
        /\ filter = Categories[1]
        /\ galleryView = filteredGallery(items, Categories[1])

Init == InitWith(SiteItems)

\* What an edit leaves in op, editLog and undone.
EditNote ==
    /\ UNCHANGED <<authVars, storeVars, pageVars>>
    /\ pending' = pending + 1
    /\ op' = IF op = "undo" THEN "undo;edit" ELSE "edit"
    /\ editLog' = IF undone = 0 THEN Append(editLog, heap[content])
                                ELSE <<heap[content]>>
    /\ undone' = 0
    /\ before' = <<>>

updateContentPushNext(m) ==
    LET cloned == structuredClone(heap, content)
        snap == cloned.ref
        hp1 == [cloned.heap EXCEPT ![snap] = mutate(@, m)]
    IN  /\ Commit(hp1, snap, rendered, pushHistory(snap, history), <<>>)
        /\ EditNote
        /\ UNCHANGED panelVars

updateContentKeepFuture(m) ==
    LET cloned == structuredClone(heap, content)
        snap == cloned.ref
        hp1 == [cloned.heap EXCEPT ![snap] = mutate(@, m)]
    IN  /\ Commit(hp1, snap, rendered, pushHistory(content, history), future)
        /\ EditNote
        /\ UNCHANGED panelVars

\* The setContent updater of updateContent (page.tsx:803-808) with
\* pushHistory (794-800).
setContentEdit(m) ==
    LET cloned == structuredClone(heap, content)
        snap == cloned.ref
        next == snap
        hp1 == [cloned.heap EXCEPT ![snap] = mutate(@, m)]
    IN  /\ Commit(hp1, next, rendered, pushHistory(content, history), <<>>)
        /\ EditNote

\* updateContent (page.tsx:802-809), called from outside the add form.
updateContent(m) == setContentEdit(m) /\ UNCHANGED panelVars

\* handleUndo (page.tsx:811-819).
handleUndo ==
    /\ UNCHANGED <<authVars, storeVars, pageVars, panelVars>>
    /\ op' = IF Len(history) = 0 THEN "undo-noop" ELSE "undo"
    /\ pending' = pending + 1
    /\ IF Len(history) = 0
       THEN UNCHANGED <<heap, content, rendered, history, future>>
       ELSE LET latest == Head(history)
                rest == Tail(history)
                fut == slice(<<ClosureContent>> \o future, HISTORY_LIMIT)
            IN  Commit(heap, latest, rendered, rest, fut)
    /\ IF undone < Len(editLog)
       THEN undone' = undone + 1 /\ UNCHANGED editLog
       ELSE undone' = 0 /\ editLog' = <<>>
    /\ before' = IF Len(history) = 0 THEN <<>>
                 ELSE <<heap[content], Vals(heap, history), Vals(heap, future)>>

\* handleRedo (page.tsx:821-829).
handleRedo ==
    /\ UNCHANGED <<authVars, storeVars, pageVars, panelVars>>
    /\ op' = IF Len(future) = 0
             THEN (IF op = "undo;edit" THEN "undo;edit;redo" ELSE "redo-noop")
             ELSE (IF op = "undo" THEN "undo;redo" ELSE "redo")
    /\ pending' = pending + 1
    /\ IF Len(future) = 0
       THEN UNCHANGED <<heap, content, rendered, history, future>>
       ELSE LET latest == Head(future)
                rest == Tail(future)
                hist == slice(<<ClosureContent>> \o history, HISTORY_LIMIT)
            IN  Commit(heap, latest, rendered, hist, rest)
    /\ editLog' = <<>>
    /\ undone' = 0
    /\ before' = <<>>

\* localStorage.setItem inside try/catch (page.tsx:715-718, 732-742): the
\* item after the call, which throws when the quota is exceeded (ok = FALSE).
setItem(item, text, ok) == IF ok THEN text ELSE item

RenderWithNoEffect(ok) ==
    /\ pending > 0
    /\ Commit(heap, content, content, history, future)
    /\ pending' = 0
    /\ UNCHANGED <<op, editLog, undone, before, authVars, storeVars, pageVars, panelVars>>

\* React re-renders Home: the handlers are re-created over the committed
\* state, and the effect on [content] (page.tsx:712-719, 746-753) stores the
\* content when it is another object than at the last render.
RenderWith(ok) ==
    /\ pending > 0
    /\ Commit(heap, content, content, history, future)
    /\ pending' = 0
    /\ IF content # rendered
       THEN /\ contentStore' = setItem(contentStore, JSONstringify(heap[content]), ok)
            /\ saveFailed' = ~ok
       ELSE UNCHANGED <<contentStore, saveFailed>>
    /\ UNCHANGED <<op, editLog, undone, before, authVars, adminStore, pageVars, panelVars>>

\* A render whose writes to localStorage succeed.
Render == RenderWith(TRUE)

\* The page is loaded again: Home, AdminPanel and ContactForm are constructed
\* anew over the stored items (page.tsx:652-705, 262-273, 517-518, 831), the
\* effects of the first commit store the content and the preferences
\* (708-744), and a fetch still in flight is never answered.
LoadWith(ok) ==
    LET c == InitialContent(contentStore)
        a == InitialAdmin(adminStore)
    IN  /\ heap' = InitialHeap(c)
        /\ content' = InitialRef(c)
        /\ rendered' = InitialRef(c)
        /\ pending' = 0
        /\ history' = a.history
        /\ future' = a.future
        /\ op' = IF lockUntil > 0 THEN "lock;load" ELSE "load"
        /\ editLog' = <<>>
        /\ undone' = 0
        /\ before' = <<>>
        /\ lockUntil' = a.lockUntil
        /\ failedCount' = a.failedCount
        /\ role' = a.role
        /\ authenticated' = a.authenticated
        /\ preview' = a.preview
        /\ now' = clock
        /\ step' = "login"
        /\ authOpen' = TRUE
        /\ authError' = "null"
        /\ loginForm' = [email |-> "", password |-> "", code |-> ""]
        /\ streak' = 0
        /\ contentStore' = setItem(contentStore, JSONstringify(c.value), ok)
        /\ adminStore' = setItem(adminStore, JSONstringify(toStore(a.preview)), ok)
        /\ saveFailed' = ~ok
        /\ formState' = EmptyForm
        /\ status' = "idle"
        /\ inflight' = <<>>
        /\ filter' = Categories[1]
        /\ galleryView' = filteredGallery(galleryItems, Categories[1])
        /\ open' = FALSE
        /\ cardDraft' = EmptyDraft
        /\ UNCHANGED <<clock, galleryItems>>

\* A load whose writes to localStorage succeed.
Load == LoadWith(TRUE)

\* ---- mock authentication gate (AdminPanel) ----
\* mockUsers (page.tsx:275-278)
mockUsers ==
    << [email |-> "admin@example.com", password |-> "admin123",
        role |-> "admin", tfa |-> TRUE],
       [email |-> "editor@example.com", password |-> "editor123",
        role |-> "editor", tfa |-> FALSE] >>

\* What the user may type into the login form.
Emails == {"admin@example.com", "Admin@Example.com", "editor@example.com",
           "guest@example.com"}
Passwords == {"admin123", "editor123", "Admin123"}
Codes == {"000000", " 000000 ", "123456", "111111"}

\* String.prototype.toLowerCase on the strings above.
toLowerCase(str) ==
    IF str = "Admin@Example.com" THEN "admin@example.com"
    ELSE IF str = "Admin123" THEN "admin123"
    ELSE str

\* String.prototype.trim on the strings above.
trim(str) == IF str = " 000000 " THEN "000000" ELSE str

\* mockUsers.find(...) of handleLogin and handleCode (page.tsx:285-289,
\* 320-324): the index of the first matching user, 0 for undefined.
find(form) ==
    LET match(u) == /\ toLowerCase(u.email) = toLowerCase(form.email)
                    /\ u.password = form.password
    IN  IF \E i \in 1..Len(mockUsers) : match(mockUsers[i])
        THEN CHOOSE i \in 1..Len(mockUsers) :
                 match(mockUsers[i]) /\ \A j \in 1..(i - 1) : ~match(mockUsers[j])
        ELSE 0

\* adminLocked (page.tsx:837)
adminLocked == lockUntil > 0 /\ now < lockUntil

\* The error texts of page.tsx:282, 291, 317, 326.
ErrLocked == "locked"
ErrCredentials == "bad login or password"
ErrCode == "bad 2FA code"
ErrSession == "session expired"

\* onChange of the email input (page.tsx:377), shown in the login step.
TypeEmail(e) ==
    /\ authOpen /\ step = "login"
    /\ loginForm' = [loginForm EXCEPT !.email = e]
    /\ op' = "type"
    /\ UNCHANGED <<histVars, storeVars, pageVars, panelVars, lockUntil, failedCount, role, authenticated,
                   preview, now, clock, step, authOpen, authError, streak>>

\* onChange of the password input (page.tsx:384).
TypePassword(pw) ==
    /\ authOpen /\ step = "login"
    /\ loginForm' = [loginForm EXCEPT !.password = pw]
    /\ op' = "type"
    /\ UNCHANGED <<histVars, storeVars, pageVars, panelVars, lockUntil, failedCount, role, authenticated,
                   preview, now, clock, step, authOpen, authError, streak>>

\* onChange of the code input (page.tsx:401), shown in the code step.
TypeCode(c) ==
    /\ authOpen /\ step = "code"
    /\ loginForm' = [loginForm EXCEPT !.code = c]
    /\ op' = "type"
    /\ UNCHANGED <<histVars, storeVars, pageVars, panelVars, lockUntil, failedCount, role, authenticated,
                   preview, now, clock, step, authOpen, authError, streak>>

\* The success branch of handleLogin and handleCode (page.tsx:306-308, 330-332).
SignIn(user) ==
    /\ role' = user.role
    /\ authenticated' = TRUE
    /\ failedCount' = 0
    /\ authOpen' = FALSE
    /\ authError' = "null"

\* handleLogin (page.tsx:280-309), the click of the login button (388):
\* locked is the lock test, threshold the failure count that locks, today
\* the time the lockout is counted from.
LoginStep(locked, threshold, today) ==
    /\ authOpen /\ step = "login"
    /\ op' = "login"
    /\ UNCHANGED <<histVars, storeVars, pageVars, panelVars, preview, now, clock, loginForm>>
    /\ LET found == find(loginForm)
       IN  /\ streak' = IF found = 0
                        THEN (IF streak < ADMIN_LOCK_THRESHOLD THEN streak + 1 ELSE streak)
                        ELSE (IF locked THEN streak ELSE 0)
           /\ IF locked
              THEN /\ authError' = ErrLocked
                   /\ UNCHANGED <<lockUntil, failedCount, role, authenticated,
                                  step, authOpen>>
              ELSE IF found = 0
              THEN /\ authError' = ErrCredentials
                   /\ LET failed == failedCount + 1
                      IN  IF failed >= threshold
                          THEN failedCount' = 0 /\ lockUntil' = today + ADMIN_LOCK_MS
                          ELSE failedCount' = failed /\ UNCHANGED lockUntil
                   /\ UNCHANGED <<role, authenticated, step, authOpen>>
              ELSE IF mockUsers[found].tfa
              THEN /\ step' = "code"
                   /\ authError' = "null"
                   /\ UNCHANGED <<lockUntil, failedCount, role, authenticated, authOpen>>
              ELSE /\ SignIn(mockUsers[found])
                   /\ UNCHANGED <<lockUntil, step>>

handleLoginLate == LoginStep(adminLocked, ADMIN_LOCK_THRESHOLD + 1, clock)

handleLoginUnlocked == LoginStep(FALSE, ADMIN_LOCK_THRESHOLD, clock)

handleLoginRenderTime == LoginStep(adminLocked, ADMIN_LOCK_THRESHOLD, now)

handleLogin == LoginStep(adminLocked, ADMIN_LOCK_THRESHOLD, clock)

\* handleCode (page.tsx:311-333), the click of the confirm button (405):
\* accepted is the test of the typed code.
CodeStep(accepted) ==
    /\ authOpen /\ step = "code"
    /\ op' = "code"
    /\ UNCHANGED <<histVars, storeVars, pageVars, panelVars, preview, now, clock, loginForm, streak>>
    /\ LET found == find(loginForm)
       IN  IF adminLocked
           THEN /\ authError' = ErrLocked
                /\ UNCHANGED <<lockUntil, failedCount, role, authenticated,
                               step, authOpen>>
           ELSE IF ~accepted
           THEN /\ authError' = ErrCode
                /\ UNCHANGED <<lockUntil, failedCount, role, authenticated,
                               step, authOpen>>
           ELSE IF found = 0
           THEN /\ authError' = ErrSession
                /\ step' = "login"
                /\ UNCHANGED <<lockUntil, failedCount, role, authenticated, authOpen>>
           ELSE /\ SignIn(mockUsers[found])
                /\ UNCHANGED <<lockUntil, step>>

handleCodeAny == CodeStep(TRUE)

handleCodeCounting ==
    LET accepted == trim(loginForm.code) = "000000" \/ trim(loginForm.code) = "123456"
    IN  IF adminLocked \/ accepted
        THEN CodeStep(accepted)
        ELSE /\ authOpen /\ step = "code"
             /\ op' = "code"
             /\ authError' = ErrCode
             /\ IF failedCount + 1 >= ADMIN_LOCK_THRESHOLD
                THEN failedCount' = 0 /\ lockUntil' = clock + ADMIN_LOCK_MS
                ELSE failedCount' = failedCount + 1 /\ UNCHANGED lockUntil
             /\ UNCHANGED <<histVars, storeVars, pageVars, panelVars, preview, now, clock,
                            loginForm, streak, role, authenticated, step, authOpen>>

handleCode ==
    CodeStep(trim(loginForm.code) = "000000" \/ trim(loginForm.code) = "123456")

\* "Change login/password" (page.tsx:409-417): setStep("login") is dispatched
\* before the call of the undefined setCodeRequested throws.
BackToLogin ==
    /\ authOpen /\ step = "code"
    /\ step' = "login"
    /\ op' = "back"
    /\ UNCHANGED <<histVars, storeVars, pageVars, panelVars, lockUntil, failedCount, role, authenticated,
                   preview, now, clock, authOpen, authError, loginForm, streak>>

\* "Close" (page.tsx:367).
CloseAuth ==
    /\ authOpen
    /\ authOpen' = FALSE
    /\ op' = "close"
    /\ UNCHANGED <<histVars, storeVars, pageVars, panelVars, lockUntil, failedCount, role, authenticated,
                   preview, now, clock, step, authError, loginForm, streak>>

\* "Sign out" (page.tsx:426-436).
SignOut ==
    /\ ~authOpen
    /\ role' = "null"
    /\ authenticated' = FALSE
    /\ step' = "login"
    /\ authOpen' = TRUE
    /\ loginForm' = [email |-> "", password |-> "", code |-> ""]
    /\ op' = "signout"
    /\ UNCHANGED <<histVars, storeVars, pageVars, panelVars, lockUntil, failedCount, preview, now, clock,
                   authError, streak>>

TickWhileLocked ==
    /\ lockUntil > 0 /\ clock < lockUntil
    /\ now' = clock
    /\ op' = "tick"
    /\ UNCHANGED <<histVars, storeVars, pageVars, panelVars, lockUntil, failedCount, role,
                   authenticated, preview, clock, step, authOpen, authError,
                   loginForm, streak>>

\* The interval of the lockout effect (page.tsx:832-836): it exists while
\* lockUntil > 0 and sets now to Date.now().
Tick ==
    /\ lockUntil > 0
    /\ now' = clock
    /\ op' = "tick"
    /\ UNCHANGED <<histVars, storeVars, pageVars, panelVars, lockUntil, failedCount, role, authenticated,
                   preview, clock, step, authOpen, authError, loginForm, streak>>

\* Time passes: Date.now() grows by half a lockout period.
ClockStep == ADMIN_LOCK_MS \div 2

AdvanceClock ==
    /\ clock' = clock + ClockStep
    /\ op' = "clock"
    /\ UNCHANGED <<histVars, storeVars, pageVars, panelVars, lockUntil, failedCount, role, authenticated,
                   preview, now, step, authOpen, authError, loginForm, streak>>

\* ---- contact form (ContactForm, api/contact/route.ts) ----
\* What the user may type into a field of the form.
FieldTexts == {"", " ", "a"}

\* !value of a string: true of the empty string only.
Falsy(str) == str = ""

\* onChange of the name, email and message inputs (page.tsx:568, 581, 596).
TypeField(k, v) ==
    /\ formState' = [formState EXCEPT ![k] = v]
    /\ op' = "field"
    /\ UNCHANGED <<histVars, authVars, storeVars, panelVars, status, inflight,
                   galleryItems, filter, galleryView>>

\* The synchronous part of submit (page.tsx:522-532): filled is the test
\* that lets the request go.  The submit button is disabled while the status
\* is loading (606).
SubmitStep(filled) ==
    /\ status # "loading"
    /\ op' = "submit"
    /\ IF ~filled
       THEN UNCHANGED <<status, inflight>>
       ELSE /\ status' = "loading"
            /\ inflight' = Append(inflight, JSONstringify(formState))
    /\ UNCHANGED <<histVars, authVars, storeVars, panelVars, formState,
                   galleryItems, filter, galleryView>>

submitUnchecked == SubmitStep(TRUE)

submit ==
    SubmitStep(~(Falsy(formState.name) \/ Falsy(formState.email)
                    \/ Falsy(formState.message)))

\* POST of api/contact/route.ts: the HTTP status of the response.
POST(body) ==
    LET payload == JSONparse(body)
    IN  IF ~payload.ok THEN 500
        ELSE IF Falsy(payload.value.email) \/ Falsy(payload.value.name)
                    \/ Falsy(payload.value.message)
        THEN 400
        ELSE 200

\* The responses fetch may resolve with: the route's, or a 502 of a gateway
\* in front of it.
Responses(body) == {POST(body), 502}

\* The name op keeps for a response.
ResponseOp(res) == IF res = 200 THEN "res200"
                   ELSE IF res = 400 THEN "res400"
                   ELSE IF res = 500 THEN "res500" ELSE "res502"

\* res.ok
IsOk(res) == res >= 200 /\ res <= 299

\* The continuation of submit after the await (page.tsx:532-537), when the
\* fetch resolves with res.
Respond(res) ==
    /\ inflight # <<>>
    /\ res \in Responses(Head(inflight))
    /\ inflight' = Tail(inflight)
    /\ op' = ResponseOp(res)
    /\ IF IsOk(res)
       THEN status' = "done" /\ formState' = EmptyForm
       ELSE status' = "error" /\ UNCHANGED formState
    /\ UNCHANGED <<histVars, authVars, storeVars, panelVars, galleryItems, filter, galleryView>>

\* The continuation of submit when the fetch rejects (page.tsx:535-537).
FetchFails ==
    /\ inflight # <<>>
    /\ inflight' = Tail(inflight)
    /\ op' = "neterror"
    /\ status' = "error"
    /\ UNCHANGED <<histVars, authVars, storeVars, panelVars, formState,
                   galleryItems, filter, galleryView>>

\* ---- add form (AdminPanel) ----
\* The "Add" / "Hide" button (page.tsx:444-449): it is rendered whatever
\* authOpen and adminState are.
ToggleOpen ==
    /\ open' = ~open
    /\ op' = "toggle"
    /\ UNCHANGED <<histVars, authVars, storeVars, pageVars, cardDraft>>

\* What the user may type into the title and the text of the add form.
DraftTexts == {"", "t"}

\* onChange of the inputs of the add form (page.tsx:459-497), shown while
\* open holds (452).
TypeDraft(k, v) ==
    /\ open
    /\ cardDraft' = [cardDraft EXCEPT ![k] = v]
    /\ op' = "draft"
    /\ UNCHANGED <<histVars, authVars, storeVars, pageVars, open>>

\* The mutation handleSubmit asks for (page.tsx:337-351).
DraftMutation == IF cardDraft.type = "feature" THEN "addFeature" ELSE "addGallery"

\* handleSubmit (page.tsx:335-359), the click of "Add card" (500):
\* onAddFeature and onAddGallery (855-856) are resolved to the edit of the
\* content by updateContent.
handleSubmit ==
    /\ open
    /\ IF Falsy(cardDraft.title) \/ Falsy(cardDraft.text)
       THEN /\ op' = "add-noop"
            /\ UNCHANGED <<histVars, authVars, storeVars, pageVars, panelVars>>
       ELSE /\ setContentEdit(DraftMutation)
            /\ cardDraft' = EmptyDraft
            /\ UNCHANGED open

\* ---- Spec: the handlers, several of them in one event batch ----
CanEdit(m) ==
    /\ Len(history) + Len(future) < MaxStack
    /\ IF m = "addFeature" THEN heap[content].features < BatchFeatures
                           ELSE heap[content].gallery < MaxGallery

Next ==
    \/ \E m \in Mutations : pending < MaxBatch /\ CanEdit(m) /\ updateContent(m)
    \/ pending < MaxBatch /\ handleUndo
    \/ pending < MaxBatch /\ handleRedo
    \/ Render

Spec == Init /\ [][Next]_vars

\* ---- SpecDeep: one handler per event, histories up to the limit ----
NextDeep ==
    \/ /\ pending = 0
       /\ heap[content].features < MaxFeatures
       /\ updateContent("addFeature")
    \/ pending = 0 /\ handleUndo
    \/ pending = 0 /\ handleRedo
    \/ Render

SpecDeep == Init /\ [][NextDeep]_vars

\* ---- SpecAuth: the authentication gate and the clock ----
NextAuth ==
    \/ \E e \in Emails : TypeEmail(e)
    \/ \E pw \in Passwords : TypePassword(pw)
    \/ \E c \in Codes : TypeCode(c)
    \/ handleLogin
    \/ handleCode
    \/ BackToLogin
    \/ CloseAuth
    \/ SignOut
    \/ Tick
    \/ clock + ClockStep <= LoadTime + MaxSpan * ADMIN_LOCK_MS /\ AdvanceClock

SpecAuth == Init /\ [][NextAuth]_vars

\* SpecAuth with the interval firing: setInterval calls its callback every
\* second for as long as the interval exists.
SpecAuthFair == SpecAuth /\ WF_vars(Tick)

\* ---- SpecLoad: loads over any stored items ----
\* What localStorage may hold under STORAGE_KEY when the page is loaded.
StoredContent ==
    {NoItem, Malformed, JSONstringify([siteData EXCEPT !.features = 1])}

\* What localStorage may hold under ADMIN_KEY when the page is loaded: what
\* the page stores itself, and objects with other fields of AdminState.
StoredAdmin ==
    {NoItem, Malformed,
     JSONstringify(toStore("mobile")),
     JSONstringify([authenticated |-> TRUE, role |-> "admin"]),
     JSONstringify([lockUntil |-> LoadTime + ADMIN_LOCK_MS, failedCount |-> 2])}

\* Another script of the origin, or the user, sets the stored items.
SetItems(cs, as) ==
    /\ contentStore' = cs
    /\ adminStore' = as
    /\ op' = "storage"
    /\ UNCHANGED <<histVars, authVars, pageVars, panelVars, saveFailed>>

NextLoad ==
    \/ \E cs \in StoredContent, as \in StoredAdmin : SetItems(cs, as)
    \/ Load
    \/ \E m \in Mutations : pending = 0 /\ history = <<>> /\ CanEdit(m) /\ updateContent(m)
    \/ pending = 0 /\ handleUndo
    \/ Render
    \/ TypeEmail("editor@example.com")
    \/ TypePassword("editor123")
    \/ handleLogin
    \/ SignOut

SpecLoad == Init /\ [][NextLoad]_vars

\* ---- SpecStore: edits and reloads over the storage the program itself ----
\* ---- wrote, with writes that may fail                                 ----
NextStore ==
    \/ \E m \in Mutations :
          /\ pending < MaxBatch /\ history = <<>> /\ future = <<>> /\ CanEdit(m)
          /\ updateContent(m)
    \/ pending < MaxBatch /\ handleUndo
    \/ pending < MaxBatch /\ handleRedo
    \/ \E ok \in BOOLEAN : RenderWith(ok)
    \/ \E ok \in BOOLEAN : LoadWith(ok)

SpecStore == Init /\ [][NextStore]_vars

\* ---- SpecContact: the contact form and its endpoint ----
NextContact ==
    \/ \E k \in DOMAIN EmptyForm, v \in FieldTexts : TypeField(k, v)
    \/ submit
    \/ \E res \in {200, 400, 500, 502} : Respond(res)
    \/ FetchFails

SpecContact == Init /\ [][NextContact]_vars

\* ---- SpecGallery: the gallery filter over any bundled gallery ----
InitGallery == \E items \in ItemLists : InitWith(items)

NextGallery == \E i \in 1..Len(Categories) : setFilter(Categories[i])

SpecGallery == InitGallery /\ [][NextGallery]_vars

\* ---- SpecReload: failed logins, lockouts and reloads over the storage ----
\* ---- the program itself wrote                                        ----
NextReload ==
    \/ \E e \in Emails : TypeEmail(e)
    \/ \E pw \in Passwords : TypePassword(pw)
    \/ handleLogin
    \/ SignOut
    \/ Tick
    \/ clock + ClockStep <= LoadTime + MaxSpan * ADMIN_LOCK_MS /\ AdvanceClock
    \/ \E ok \in BOOLEAN : LoadWith(ok)

SpecReload == Init /\ [][NextReload]_vars

\* ---- SpecPanel: the add form next to the authentication gate ----
NextPanel ==
    \/ TypeEmail("editor@example.com")
    \/ TypePassword("editor123")
    \/ handleLogin
    \/ CloseAuth
    \/ SignOut
    \/ ToggleOpen
    \/ \E k \in {"title", "text"}, v \in DraftTexts : TypeDraft(k, v)
    \/ \E t \in {"feature", "gallery"} : TypeDraft("type", t)
    \/ pending = 0 /\ history = <<>> /\ CanEdit(DraftMutation) /\ handleSubmit
    \/ Render

SpecPanel == Init /\ [][NextPanel]_vars

\* ---- claims about the history manager ----
\* A step of the handler that leaves o in op.
Ran(o) == pending' = pending + 1 /\ op' = o

\* C1 as stated: after a run of edits followed by N undos, N at least 1 and
\* at most the number of edits, the content is the content before the last
\* N edits.
C1_UndoRestoresAnyDepth ==
    (undone > 0 /\ undone <= Len(editLog))
        => heap[content] = editLog[Len(editLog) - undone + 1]

\* C1 amended: the same for N at most min(edits, HISTORY_LIMIT).
C1_UndoRestores ==
    (undone > 0 /\ undone <= Len(editLog) /\ undone <= HISTORY_LIMIT)
        => heap[content] = editLog[Len(editLog) - undone + 1]

C1_Witness ==
    /\ op = "undo"
    /\ undone = HISTORY_LIMIT
    /\ Len(editLog) > HISTORY_LIMIT

\* C3: an edit made after an undo leaves the future stack empty, and a redo
\* that follows this edit changes neither the content nor the stacks.
C3_EditClearsRedo ==
    [][/\ Ran("undo;edit") => future' = <<>>
       /\ (op = "undo;edit" /\ pending' = pending + 1 /\ op' \notin {"edit", "undo"})
              => /\ op' = "undo;edit;redo"
                 /\ UNCHANGED <<heap, content, history, future>>]_vars

C3_Witness ==
    /\ op = "undo;edit;redo"
    /\ future = <<>>
    /\ history # <<>>

\* C4: the history stack and the future stack hold at most HISTORY_LIMIT
\* entries each.
C4_StacksBounded ==
    Len(history) <= HISTORY_LIMIT /\ Len(future) <= HISTORY_LIMIT

C4_Witness ==
    /\ Len(future) = HISTORY_LIMIT
    /\ Len(editLog) > HISTORY_LIMIT

\* C9: an edit made after an undo or a redo leaves the value of every
\* snapshot as it was: the history holds the pre-edit content followed by
\* its old entries, with their old values, and the new content is an object
\* that no stack entry and no closure refers to.
C9_EditKeepsSnapshots ==
    [][(pending' = pending + 1 /\ op' \in {"edit", "undo;edit"}
            /\ op \in {"undo", "redo", "undo;redo"})
          => /\ Vals(heap', history') =
                   slice(<<heap[content]>> \o Vals(heap, history), HISTORY_LIMIT)
             /\ heap'[rendered'] = heap[rendered]
             /\ content' \notin Range(history') \cup Range(future') \cup {rendered'}
             /\ heap'[content'] # heap[content]]_vars

C9_Witness ==
    /\ op = "undo;edit"
    /\ Len(history) >= 2
    /\ heap[history[1]] # heap[content]

\* C10 as stated: the snapshot an undo pushes onto the future stack, and a
\* redo onto the history stack, is the content that is current when the
\* handler takes effect, also within one event batch.
C10_PushesCurrentContent ==
    [][/\ Ran("undo") => heap'[Head(future')] = heap[content]
       /\ (Ran("redo") \/ Ran("undo;redo"))
              => heap'[Head(history')] = heap[content]]_vars


\* ---- claims about the authentication gate ----
\* A click handled by the handler that leaves o in op.
Clicked(o) == op' = o /\ pending' = pending

\* The typed credentials match a user.
ValidCredentials == find(loginForm) # 0

\* C2: once three login attempts in a row had non-matching credentials a
\* lockout has been set, and as long as the clock is before its expiry a
\* login attempt with correct credentials neither sets authenticated nor
\* moves to the code step.
C2_LockedAfterThreeFailures ==
    /\ [](streak >= ADMIN_LOCK_THRESHOLD => lockUntil > 0)
    /\ [][(Clicked("login") /\ streak >= ADMIN_LOCK_THRESHOLD
              /\ ValidCredentials /\ clock < lockUntil)
            => /\ ~authenticated'
               /\ step' = "login"
               /\ authOpen']_vars

C2_Witness ==
    /\ op = "login"
    /\ streak >= ADMIN_LOCK_THRESHOLD
    /\ ValidCredentials
    /\ clock < lockUntil
    /\ authError = ErrLocked
    /\ ~authenticated

\* C5: while the clock is before the lockout expiry, a login attempt and a
\* code submission end with the locked error and leave role, authenticated,
\* failedCount, lockUntil and the step unchanged, whatever was typed.
C5_LockRejectsAll ==
    [][(clock < lockUntil /\ (Clicked("login") \/ Clicked("code")))
          => /\ authError' = ErrLocked
             /\ UNCHANGED <<role, authenticated, failedCount, lockUntil, step>>]_vars

C5_Witness ==
    /\ op = "login"
    /\ clock < lockUntil
    /\ now < clock
    /\ find(loginForm) = 2
    /\ authError = ErrLocked
    /\ role = "null"

\* C6 as stated: in the code step, a code other than "000000" and "123456"
\* leaves authenticated false, and "000000" sets authenticated and the role
\* of the account whose credentials were typed.
C6_OnlyLiteralCodes ==
    [][Clicked("code")
          => /\ loginForm.code \notin {"000000", "123456"} => ~authenticated'
             /\ loginForm.code = "000000"
                  => authenticated' /\ role' = mockUsers[find(loginForm)].role]_vars

\* C6 amended: the same for the code with its surrounding white space
\* removed.
C6_TrimmedCodes ==
    [][Clicked("code")
          => /\ ValidCredentials /\ mockUsers[find(loginForm)].tfa
             /\ trim(loginForm.code) \notin {"000000", "123456"} => ~authenticated'
             /\ trim(loginForm.code) = "000000"
                  => authenticated' /\ role' = mockUsers[find(loginForm)].role]_vars

C6_Witness ==
    /\ op = "code"
    /\ loginForm.code = "000000"
    /\ authenticated
    /\ role = "admin"
    /\ ~authOpen

\* C7: a login attempt with non-matching credentials made while not locked
\* adds one to failedCount, or, when that makes ADMIN_LOCK_THRESHOLD, sets
\* lockUntil to the current time plus ADMIN_LOCK_MS and failedCount to 0; a
\* step that completes a login sets failedCount to 0.
C7_FailureCounting ==
    [][/\ (Clicked("login") /\ ~adminLocked /\ ~ValidCredentials)
            => IF failedCount + 1 >= ADMIN_LOCK_THRESHOLD
               THEN lockUntil' = clock + ADMIN_LOCK_MS /\ failedCount' = 0
               ELSE failedCount' = failedCount + 1 /\ lockUntil' = lockUntil
       /\ (~authenticated /\ authenticated') => failedCount' = 0]_vars

C7_Witness ==
    /\ op = "login"
    /\ authError = ErrCredentials
    /\ failedCount = 0
    /\ lockUntil = clock + ADMIN_LOCK_MS
    /\ now < clock

\* ---- claims about the page load ----
\* C8 as stated: after every load authenticated is false, role is null and
\* both stacks are empty, whatever the session was and whatever is stored.
C8_LoadResetsSession ==
    op \in {"load", "lock;load"} => /\ ~authenticated
                                    /\ role = "null"
                                    /\ history = <<>>
                                    /\ future = <<>>

\* C17: after every edit the newest history entry is the content as it was
\* just before the edit, the content is a mutated copy of it, and a history
\* that held HISTORY_LIMIT entries loses its oldest one while the others
\* keep their order.
C17_EditPushesSnapshot ==
    [][(Ran("edit") \/ Ran("undo;edit"))
          => /\ heap'[Head(history')] = heap[content]
             /\ Tail(Vals(heap', history')) =
                   IF Len(history) < HISTORY_LIMIT
                   THEN Vals(heap, history)
                   ELSE SubSeq(Vals(heap, history), 1, HISTORY_LIMIT - 1)
             /\ \E m \in Mutations : heap'[content'] = mutate(heap[content], m)
             /\ content' # Head(history')]_vars

C17_Witness ==
    /\ op = "edit"
    /\ Len(history) = HISTORY_LIMIT
    /\ Len(editLog) > HISTORY_LIMIT
    /\ heap[Head(history)] = editLog[Len(editLog)]

\* C18 as stated: from a state with a non-empty history, an undo followed at
\* once by a redo leaves the content, the history and the future with the
\* values they had before the undo; an undo on an empty history and a redo
\* on an empty future change none of them.
C18_RedoMirrorsUndo ==
    [][/\ Ran("undo;redo")
            => <<heap'[content'], Vals(heap', history'), Vals(heap', future')>>
                   = before
       /\ (Ran("undo-noop") \/ Ran("redo-noop"))
            => /\ heap'[content'] = heap[content]
               /\ Vals(heap', history') = Vals(heap, history)
               /\ Vals(heap', future') = Vals(heap, future)]_vars

\* C19: every lockout ends: once a lockout is set and the clock is at or
\* past lockUntil, the ticks of the interval lead to a state where the page
\* is no longer locked, and a login with matching credentials made while it
\* is not locked is not rejected as locked.
C19_LockoutEnds ==
    /\ (lockUntil > 0 /\ clock >= lockUntil) ~> ~adminLocked
    /\ [][(~adminLocked /\ ValidCredentials /\ Clicked("login"))
             => authError' # ErrLocked]_vars

C19_Witness ==
    /\ lockUntil > 0 /\ clock >= lockUntil
    /\ ~adminLocked
    /\ op = "login"
    /\ authenticated

\* C20: history and future together never hold more than HISTORY_LIMIT
\* entries, so the slice of handleUndo and of handleRedo drops nothing: an
\* undo moves one entry from the history to the future and a redo one entry
\* back.
C20_StacksTogetherBounded ==
    /\ [](Len(history) + Len(future) <= HISTORY_LIMIT)
    /\ [][/\ Ran("undo") => /\ Len(history') = Len(history) - 1
                            /\ Len(future') = Len(future) + 1
                            /\ Tail(Vals(heap', future')) = Vals(heap, future)
          /\ (Ran("redo") \/ Ran("undo;redo"))
                => /\ Len(future') = Len(future) - 1
                   /\ Len(history') = Len(history) + 1
                   /\ Tail(Vals(heap', history')) = Vals(heap, history)]_vars

C20_Witness ==
    /\ op = "undo"
    /\ Len(history) + Len(future) = HISTORY_LIMIT
    /\ Len(history) > 0
    /\ Len(future) > 1

\* ---- claims about persistence ----
\* C11: once rendered, the item under the content key is the serialization
\* of the current content and the item under the admin key the serialization
\* of exactly the persisted preferences, unless the last write failed.
C11_StoredIsCurrent ==
    (pending = 0 /\ ~saveFailed)
        => /\ contentStore = JSONstringify(heap[content])
           /\ adminStore = JSONstringify(toStore(preview))

C11_Witness ==
    /\ pending = 0 /\ ~saveFailed
    /\ op = "undo"
    /\ heap[content] # siteData
    /\ contentStore = JSONstringify(heap[content])

\* C12: a load takes the content from the item under the content key when
\* there is one and it parses, and is the bundled default otherwise; an
\* absent or malformed item, of either key, gives the defaults and no error.
C12_LoadsStoredOrDefault ==
    [][op' \in {"load", "lock;load"}
          => /\ heap'[content'] = IF contentStore.kind = "json"
                                    THEN contentStore.value ELSE siteData
             /\ contentStore.kind # "json" => content' = SiteRef
             /\ adminStore.kind # "json" =>
                    /\ preview' = defaultState.preview
                    /\ authenticated' = defaultState.authenticated
                    /\ role' = defaultState.role
                    /\ lockUntil' = defaultState.lockUntil
                    /\ failedCount' = defaultState.failedCount
             /\ authError' = "null"
             /\ history' = <<>> /\ future' = <<>>]_vars

C12_Witness ==
    /\ op = "load"
    /\ content # SiteRef
    /\ heap[content] = [siteData EXCEPT !.features = 1]
    /\ preview = defaultState.preview

C21_WrongCodeNeverLocks ==
    [][(Clicked("code") /\ trim(loginForm.code) \notin {"000000", "123456"})
          => /\ UNCHANGED <<failedCount, lockUntil, role, authenticated>>
             /\ step' = "code"
             /\ authError' \in {ErrCode, ErrLocked}]_vars

C21_Witness ==
    /\ op = "code"
    /\ authError = ErrCode
    /\ step = "code"
    /\ failedCount = ADMIN_LOCK_THRESHOLD - 1
    /\ lockUntil = 0

\* C22: the item the program stores under the admin key never holds
\* lockUntil or failedCount, and a load of the page leaves both at 0
\* whatever they were before it.
C22_ReloadClearsLockout ==
    /\ [](adminStore.kind = "json"
            => {"lockUntil", "failedCount"} \cap DOMAIN adminStore.value = {})
    /\ [][op' \in {"load", "lock;load"}
             => lockUntil' = 0 /\ failedCount' = 0]_vars

C22_Witness ==
    /\ op = "lock;load"
    /\ lockUntil = 0 /\ failedCount = 0
    /\ clock < LoadTime + ADMIN_LOCK_MS
    /\ ~adminLocked

C14_TimerOnlyWhileLocked ==
    [][Clicked("tick") => now < lockUntil]_vars

\* ---- claims about the contact form ----
\* C15: a submit with name, email and message all non-empty issues exactly
\* one request and sets the status to loading; a 2xx response sets it to done
\* and clears the fields, a failed request or any other response sets it to
\* error and keeps the fields; nothing but a submit issues a request; a
\* submit with an empty field issues none and leaves the status as it was.
C15_SubmitIssuesOneRequest ==
    [][/\ (op' = "submit" /\ "" \notin Range(<<formState.name, formState.email,
                                                 formState.message>>))
            => /\ inflight' = Append(inflight, JSONstringify(formState))
               /\ status' = "loading"
               /\ formState' = formState
       /\ (op' = "submit" /\ "" \in Range(<<formState.name, formState.email,
                                              formState.message>>))
            => UNCHANGED <<inflight, status, formState>>
       /\ Len(inflight') > Len(inflight) => op' = "submit"
       /\ op' = "res200"
            => status = "loading" /\ status' = "done" /\ formState' = EmptyForm
       /\ op' \in {"res400", "res500", "res502", "neterror"}
            => status = "loading" /\ status' = "error" /\ formState' = formState
       /\ Len(inflight') <= 1]_vars

C15_Witness ==
    /\ op = "res200"
    /\ status = "done"
    /\ formState = EmptyForm

\* ---- claims about the gallery ----
\* C16: under the filter "all" the gallery shown is the whole item list in
\* its order; under any other filter it is exactly the items whose category
\* equals the filter, each once and in their original order.
C16_FilterSelectsCategory ==
    /\ filter = All => galleryView = galleryItems
    /\ filter # All =>
          /\ \A i \in 1..Len(galleryView) :
                /\ galleryView[i].category = filter
                /\ galleryView[i] \in Range(galleryItems)
          /\ \A i, j \in 1..Len(galleryView) :
                i < j => galleryView[i].id < galleryView[j].id
          /\ \A j \in 1..Len(galleryItems) :
                galleryItems[j].category = filter
                    => galleryItems[j] \in Range(galleryView)

C16_Witness ==
    /\ op = "filter"
    /\ filter = "UI"
    /\ Len(galleryItems) = 3
    /\ galleryItems[2].category = "ui"
    /\ Len(galleryView) = 2

====
